---- MODULE Spec2Model ----
(***************************************************************************)
(* suapapa/mqvision: the SingleInMultiOutPipe stream broadcaster           *)
(* (multi_writer_pipe.go) and the fan-out/join of one broadcast (main.go). *)
(*                                                                         *)
(* Spec          : the broadcaster driven through its API by a goroutine   *)
(*                 that calls Write and Close, and readers that Read and   *)
(*                 Close.                                                  *)
(* FairSpec      : Spec with the scheduling of runnable goroutines.        *)
(* BcastSpec     : one broadcast, single-shot (main) or per MQTT message   *)
(*                 (mqttReadGuageSubHandler).                              *)
(* BcastFairSpec : BcastSpec with the scheduling of runnable goroutines.   *)
(* ConcSpec      : the broadcaster with two goroutines calling Write and   *)
(*                 Close at once.                                          *)
(* SysSpec       : the process: broadcasts in flight, chLuggage, the sink  *)
(*                 goroutine, the latest value and the shutdown sequence.  *)
(* CancelFairSpec: BcastFairSpec's broadcast with cancel() called at any   *)
(*                 moment, the source and the consumers free to stall.     *)
(* ConcReadSpec  : ConcSpec with readers that read byte by byte and close. *)
(* MwSpec        : the handler built on io.MultiWriter over two io.Pipe    *)
(*                 (main.go 222-283); MwFairSpec adds the scheduling.      *)
(***************************************************************************)
EXTENDS Integers, Sequences, FiniteSets, TLC

\* ---------------------------------------------------------------- bounds
MaxReaders == 2     \* readerCount is drawn from 1..MaxReaders
MaxWrites  == 2     \* Write calls made through the API
MaxChunk   == 2     \* len(p) of a Write is drawn from 0..MaxChunk
MaxInFlight   == 2  \* broadcasts in flight at once
MaxBroadcasts == 11 \* broadcasts started in the life of the process
MaxFaults     == 1  \* broadcasts in which a task fails or the reading is no number

\* ------------------------------------------------------ program constants
FanOut     == 2     \* SingleInMultiOutPipe(2)
LuggageCap == 10    \* make(chan *Luggage, 10)

\* ------------------------------------------------------------- constants
Procs   == {"g1", "g2"}          \* goroutines that use the write-endpoint
NoOne   == "none"                \* w.mu is not held
Nil     == "nil"
ErrClosedPipe == "io.ErrClosedPipe"
ErrShortWrite == "io.ErrShortWrite"
EOF     == "io.EOF"
Reading   == "123.4"             \* a GasMeterReadResult (its Read field)
StoredURL == "addr/luggage/key"  \* what PostImage returns for a stored image
PostErr   == "concierge error"

VARIABLES
    n,          \* readerCount given to SingleInMultiOutPipe
    closed,     \* w.closed
    mu,         \* holder of w.mu, or NoOne
    pipe,       \* pipe[i]: the i-th io.Pipe (writers[i] = closers[i] = pw, readers[i] = pr)
    pc,         \* pc[g]: where goroutine g is inside Write or Close
    chunk,      \* chunk[g]: the p of g's Write
    idx,        \* idx[g]: loop position over w.writers / w.closers
    firstErr,   \* firstErr[g]: Write's local firstErr; in Close, errs[0]
    res,        \* res[g]: what g's last call returned
    received,   \* received[i]: the bytes reader i has read so far
    rstat,      \* rstat[i]: "open", or EOF once a Read of reader i returned it
    \* history of the run, read by the properties only
    written,    \* the chunks that passed the closed check of Write, in lock order
    fwd,        \* fwd[g]: the (n, err) of each forward of g's current Write
    closeRet,   \* some Close on the write-endpoint has returned
    after,      \* after[g]: g's call began after a Close had returned
    rcBefore,   \* rcBefore[g]: readers already closed when g's Write began
    nWrites,    \* Write calls made so far
    nextByte,   \* the next byte of the source stream
    cres,       \* cres[g]: what g's last Close returned, "none" until it returns
    \* one broadcast
    path,       \* "api", or how the broadcast is run: "single" (flagSingleShot) or "mqtt"
    cp,         \* the copy task: "copy", "close", "done"
    srcEnd,     \* how the source stream ended: "none" (not yet), EOF or "error"
    archSt,     \* the archival task (PostImage on pOuts[0]): "run", "ok", "fail"
    extSt,      \* the extraction task (ReadGasGuagePic on pOuts[1]): "run", "ok", "fail"
    srcImgStoredURL,
    readResult,
    wg,         \* the WaitGroup counter of the broadcast
    mainpc,     \* the goroutine that runs the broadcast
    chLuggage,  \* the buffered channel
    sent,       \* history: every Luggage sent on chLuggage
    \* the process
    mode,       \* "single" (flagSingleShot != "") or "mqtt"
    hst,        \* hst[h]: the goroutine of the h-th broadcast in flight
    sinkpc,     \* the sink goroutine: "run", "exited", "panic"
    latest,     \* what sensorServer holds: NoValue, or the value last set
    ctxDone,    \* cancel() was called
    accepting,  \* the MQTT client calls the handler for new messages
    nCloseCh,   \* close(chLuggage) calls made
    shpc,       \* main: "serve", "stop", "close", "grace", "exit"
    timedOut,   \* the wait for the goroutines ended by its timeout
    crashed,    \* Nil, or the panic that ended the process
    started,    \* broadcasts started so far
    faults,     \* broadcasts so far with a failed task or a reading that is no number
    nSent,      \* sends on chLuggage completed so far
    got         \* history: the Luggage the sink received, by the number of its send

\* the broadcaster, its callers and its readers
pvars == <<n, closed, mu, pipe, pc, chunk, idx, firstErr, res, received, rstat>>
\* the history
hvars == <<written, fwd, closeRet, after, rcBefore, nWrites, nextByte, cres>>

\* the broadcast
bvars == <<path, cp, srcEnd, archSt, extSt, srcImgStoredURL, readResult, wg, mainpc,
           chLuggage, sent>>

\* the broadcast, without the channel
bfix == <<path, cp, srcEnd, archSt, extSt, srcImgStoredURL, readResult, wg, mainpc>>

\* the process
svars == <<mode, hst, sinkpc, latest, ctxDone, accepting, nCloseCh, shpc, timedOut,
           crashed, started, faults, nSent, got>>

vars == <<pvars, hvars, bvars, svars>>

Readers == 1..n

\* ------------------------------------------------------------- helpers
Min(a, b) == IF a < b THEN a ELSE b

Take(s, k) == SubSeq(s, 1, k)
Drop(s, k) == SubSeq(s, k + 1, Len(s))

Range(s) == {s[k] : k \in 1..Len(s)}

IsPrefix(s, t) == Len(s) <= Len(t) /\ Take(t, Len(s)) = s

\* The bytes of a new chunk: each byte of the stream is distinct, so a byte
\* that is lost, repeated or moved shows in what a reader received.
NewChunk(len) == [k \in 1..len |-> nextByte + k - 1]

\* ------------------------------------------------------------- io.Pipe
\* One io.Pipe as SingleInMultiOutPipe makes it: unbuffered; done is closed by
\* either end's Close.
NewPipe == [wclosed |-> FALSE, rclosed |-> FALSE,
            wr |-> FALSE, once |-> FALSE, b |-> <<>>, cnt |-> 0,
            wcloses |-> 0]       \* history: Close calls made on the pipe writer

PipeDone(i) == pipe[i].wclosed \/ pipe[i].rclosed

\* A write on pipe i is offering bytes to a reader.
PipeOffering(i) == pipe[i].wr /\ (pipe[i].once \/ Len(pipe[i].b) > 0)

\* ------------------------------------------------------------- Write
\* lines 40-45: firstErr after a forward returned (nw, err) for a chunk of lenp bytes
UpdFirstErr(fe, nw, err, lenp) ==
    LET fe1 == IF err # Nil /\ fe = Nil THEN err ELSE fe
    IN  IF nw # lenp /\ fe1 = Nil THEN ErrShortWrite ELSE fe1

WriteResult_Short(lenp, fe) == [n |-> IF fe = Nil THEN lenp ELSE 0, err |-> fe]

\* lines 48-51: what Write returns
WriteResult(lenp, fe) == [n |-> lenp, err |-> fe]

WriteSeesClosed_Never == FALSE

\* line 31: the closed check, made under the lock
WriteSeesClosed == closed

AfterForward_FirstOnly(g, err) == "W48"

AfterForward_StopOnErr(g, err) == IF err = Nil /\ idx[g] < n THEN "W38" ELSE "W48"

\* line 38: the loop goes on to the next writer whatever the forward returned
AfterForward(g, err) == IF idx[g] < n THEN "W38" ELSE "W48"

WriteCanLock_Always(g) == TRUE

\* line 28: w.mu.Lock() returns once no goroutine holds the lock
WriteCanLock(g) == mu = NoOne

\* Write(p) is called with len(p) = len.
StartWrite(g, len) ==
    /\ pc[g] = "idle"
    /\ nWrites' = nWrites + 1
    /\ chunk' = [chunk EXCEPT ![g] = NewChunk(len)]
    /\ nextByte' = nextByte + len
    /\ pc' = [pc EXCEPT ![g] = "W28"]
    /\ after' = [after EXCEPT ![g] = closeRet]
    /\ rcBefore' = [rcBefore EXCEPT ![g] = {i \in Readers : pipe[i].rclosed}]
    /\ fwd' = [fwd EXCEPT ![g] = <<>>]
    /\ res' = [res EXCEPT ![g] = [done |-> FALSE, n |-> 0, err |-> Nil]]
    /\ UNCHANGED <<n, closed, mu, pipe, idx, firstErr, received, rstat, written,
                   closeRet, cres>>

\* lines 28-37: take the lock; a closed endpoint rejects the chunk
WriteLock(g) ==
    /\ pc[g] = "W28"
    /\ WriteCanLock(g)
    /\ IF WriteSeesClosed
       THEN /\ res' = [res EXCEPT ![g] = [done |-> TRUE, n |-> 0, err |-> ErrClosedPipe]]
            /\ pc' = [pc EXCEPT ![g] = "idle"]
            /\ UNCHANGED <<mu, idx, firstErr, written>>
       ELSE /\ mu' = g
            /\ idx' = [idx EXCEPT ![g] = 1]
            /\ firstErr' = [firstErr EXCEPT ![g] = Nil]
            /\ written' = written \o chunk[g]
            /\ pc' = [pc EXCEPT ![g] = "W38"]
            /\ UNCHANGED res
    /\ UNCHANGED <<n, closed, pipe, chunk, received, rstat, fwd, closeRet, after,
                   rcBefore, nWrites, nextByte, cres>>
    /\ UNCHANGED bvars
    /\ UNCHANGED svars

\* line 39, entering writer.Write(p) on pipe idx[g]: a pipe whose done is closed
\* returns (0, ErrClosedPipe) at once, any other takes the chunk and waits for
\* the reader
WriteForward(g) ==
    /\ pc[g] = "W38"
    /\ LET i == idx[g] IN
       IF PipeDone(i)
       THEN /\ firstErr' = [firstErr EXCEPT
                   ![g] = UpdFirstErr(firstErr[g], 0, ErrClosedPipe, Len(chunk[g]))]
            /\ fwd' = [fwd EXCEPT ![g] = Append(@, [n |-> 0, err |-> ErrClosedPipe])]
            /\ pc' = [pc EXCEPT ![g] = AfterForward(g, ErrClosedPipe)]
            /\ idx' = [idx EXCEPT ![g] = i + 1]
            /\ UNCHANGED pipe
       ELSE /\ pipe' = [pipe EXCEPT ![i] = [@ EXCEPT !.wr = TRUE, !.once = TRUE,
                                                     !.b = chunk[g], !.cnt = 0]]
            /\ pc' = [pc EXCEPT ![g] = "W39"]
            /\ UNCHANGED <<firstErr, fwd, idx>>
    /\ UNCHANGED <<n, closed, mu, chunk, res, received, rstat, written, closeRet,
                   after, rcBefore, nWrites, nextByte, cres>>
    /\ UNCHANGED bvars
    /\ UNCHANGED svars

ForwardComplete_NoWait(i) == TRUE

\* PipeWriter.Write has handed over its whole chunk: the reader took every byte
ForwardComplete(i) == ~pipe[i].once /\ Len(pipe[i].b) = 0

\* line 39, writer.Write(p) returns: every byte was taken (n = len(p), nil), or
\* the reader was closed first (the bytes taken so far, ErrClosedPipe)
WriteForwardDone(g) ==
    /\ pc[g] = "W39"
    /\ LET i    == idx[g]
           full == ForwardComplete(i)
           nw   == pipe[i].cnt
           err  == IF full THEN Nil ELSE ErrClosedPipe
       IN  /\ full \/ PipeDone(i)
           /\ firstErr' = [firstErr EXCEPT
                  ![g] = UpdFirstErr(firstErr[g], nw, err, Len(chunk[g]))]
           /\ fwd' = [fwd EXCEPT ![g] = Append(@, [n |-> nw, err |-> err])]
           /\ pipe' = [pipe EXCEPT ![i] = [@ EXCEPT !.wr = FALSE, !.once = FALSE,
                                                    !.b = <<>>, !.cnt = 0]]
           /\ pc' = [pc EXCEPT ![g] = AfterForward(g, err)]
           /\ idx' = [idx EXCEPT ![g] = i + 1]
    /\ UNCHANGED <<n, closed, mu, chunk, res, received, rstat, written, closeRet,
                   after, rcBefore, nWrites, nextByte, cres>>
    /\ UNCHANGED bvars
    /\ UNCHANGED svars

\* lines 48-51 and the deferred Unlock of line 29
WriteReturn(g) ==
    /\ pc[g] = "W48"
    /\ res' = [res EXCEPT ![g] = [done |-> TRUE] @@
                                 WriteResult(Len(chunk[g]), firstErr[g])]
    /\ mu' = NoOne
    /\ pc' = [pc EXCEPT ![g] = "idle"]
    /\ UNCHANGED <<n, closed, pipe, chunk, idx, firstErr, received, rstat, written,
                   fwd, closeRet, after, rcBefore, nWrites, nextByte, cres>>
    /\ UNCHANGED bvars
    /\ UNCHANGED svars

\* ------------------------------------------------------------- Close
AfterClosePipe_FirstOnly(g) == "C70"

\* line 64: the loop goes on to the next closer
AfterClosePipe(g) == IF idx[g] < n THEN "C64" ELSE "C70"

CloseSeesClosed_Never == FALSE

\* line 58: the closed check, made under the lock
CloseSeesClosed == closed

CloseCanLock_Always(g) == TRUE

\* line 55: w.mu.Lock() returns once no goroutine holds the lock
CloseCanLock(g) == mu = NoOne

\* line 65: closer.Close() is (*io.PipeWriter).Close, which always returns nil
PipeWriterClose(i) == Nil

\* lines 65-67 and 70-72: errs[0] after a closer returned err
UpdCloseErr(fe, err) == IF err # Nil /\ fe = Nil THEN err ELSE fe

\* Close() on the write-endpoint is called.
StartClose(g) ==
    /\ pc[g] = "idle"
    /\ pc' = [pc EXCEPT ![g] = "C55"]
    /\ cres' = [cres EXCEPT ![g] = "none"]
    /\ UNCHANGED <<n, closed, mu, pipe, chunk, idx, firstErr, res, received, rstat>>
    /\ UNCHANGED <<written, fwd, closeRet, after, rcBefore, nWrites, nextByte>>

\* lines 55-63: take the lock; a Close after the first returns nil at once
CloseLock(g) ==
    /\ pc[g] = "C55"
    /\ CloseCanLock(g)
    /\ IF CloseSeesClosed
       THEN /\ pc' = [pc EXCEPT ![g] = "idle"]
            /\ closeRet' = TRUE
            /\ cres' = [cres EXCEPT ![g] = Nil]
            /\ UNCHANGED <<mu, idx, closed, firstErr>>
       ELSE /\ closed' = TRUE
            /\ mu' = g
            /\ idx' = [idx EXCEPT ![g] = 1]
            /\ firstErr' = [firstErr EXCEPT ![g] = Nil]
            /\ pc' = [pc EXCEPT ![g] = "C64"]
            /\ UNCHANGED <<closeRet, cres>>
    /\ UNCHANGED <<n, pipe, chunk, res, received, rstat, written, fwd, after,
                   rcBefore, nWrites, nextByte>>
    /\ UNCHANGED bvars
    /\ UNCHANGED svars

\* lines 64-68: closer.Close() on the next pipe writer; PipeWriter.Close returns nil
ClosePipe(g) ==
    /\ pc[g] = "C64"
    /\ pipe' = [pipe EXCEPT ![idx[g]] = [@ EXCEPT !.wclosed = TRUE,
                                                  !.wcloses = @ + 1]]
    /\ firstErr' = [firstErr EXCEPT
           ![g] = UpdCloseErr(firstErr[g], PipeWriterClose(idx[g]))]
    /\ idx' = [idx EXCEPT ![g] = @ + 1]
    /\ pc' = [pc EXCEPT ![g] = AfterClosePipe(g)]
    /\ UNCHANGED <<n, closed, mu, chunk, res, received, rstat>>
    /\ UNCHANGED hvars
    /\ UNCHANGED bvars
    /\ UNCHANGED svars

\* lines 70-73 and the deferred Unlock of line 56
CloseReturn(g) ==
    /\ pc[g] = "C70"
    /\ mu' = NoOne
    /\ closeRet' = TRUE
    /\ cres' = [cres EXCEPT ![g] = firstErr[g]]
    /\ pc' = [pc EXCEPT ![g] = "idle"]
    /\ UNCHANGED <<n, closed, pipe, chunk, idx, firstErr, res, received, rstat, written,
                   fwd, after, rcBefore, nWrites, nextByte>>
    /\ UNCHANGED bvars
    /\ UNCHANGED svars

\* ------------------------------------------------------------- readers
\* Read(b) on read-endpoint i with len(b) = k (the embedded io.Reader is the
\* PipeReader): the next bytes of the chunk on offer, or EOF once the pipe
\* writer is closed; it blocks otherwise. A reader that has closed its own end
\* does not read it again (such a Read returns ErrClosedPipe and no byte).
Read(i, k) ==
    /\ rstat[i] = "open"
    /\ ~pipe[i].rclosed
    /\ IF PipeOffering(i)
       THEN LET nr == Min(k, Len(pipe[i].b)) IN
            /\ received' = [received EXCEPT ![i] = @ \o Take(pipe[i].b, nr)]
            /\ pipe' = [pipe EXCEPT ![i] = [@ EXCEPT !.b = Drop(@, nr), !.once = FALSE,
                                                     !.cnt = @ + nr]]
            /\ UNCHANGED rstat
       ELSE /\ pipe[i].wclosed
            /\ rstat' = [rstat EXCEPT ![i] = EOF]
            /\ UNCHANGED <<pipe, received>>
    /\ UNCHANGED <<n, closed, mu, pc, chunk, idx, firstErr, res>>
    /\ UNCHANGED hvars
    /\ UNCHANGED bvars
    /\ UNCHANGED svars

CloseReader_Noop(i) ==
    /\ UNCHANGED pvars
    /\ UNCHANGED hvars

\* lines 13-18: Close() on read-endpoint i closes its own PipeReader
CloseReader(i) ==
    /\ pipe' = [pipe EXCEPT ![i] = [@ EXCEPT !.rclosed = TRUE]]
    /\ UNCHANGED <<n, closed, mu, pc, chunk, idx, firstErr, res, received, rstat>>
    /\ UNCHANGED hvars

\* ------------------------------------------------------------- the API, driven
\* A goroutine calls Write with a chunk of any length.
WriteCall(g, len) ==
    /\ nWrites < MaxWrites
    /\ StartWrite(g, len)
    /\ UNCHANGED bvars
    /\ UNCHANGED svars

\* A goroutine calls Close on the write-endpoint.
CloseCall(g) ==
    /\ StartClose(g)
    /\ UNCHANGED bvars
    /\ UNCHANGED svars

\* A reader closes its read-endpoint, at any time.
ReaderClose(i) ==
    /\ ~pipe[i].rclosed
    /\ CloseReader(i)
    /\ UNCHANGED bvars
    /\ UNCHANGED svars

\* lines 79-101: SingleInMultiOutPipe(readerCount)
SingleInMultiOutPipe(readerCount) ==
    /\ n = readerCount
    /\ closed = FALSE
    /\ mu = NoOne
    /\ pipe = [i \in 1..readerCount |-> NewPipe]
    /\ received = [i \in 1..readerCount |-> <<>>]
    /\ rstat = [i \in 1..readerCount |-> "open"]

\* Nothing has called the endpoints yet.
InitCallers ==
    /\ pc = [g \in Procs |-> "idle"]
    /\ chunk = [g \in Procs |-> <<>>]
    /\ idx = [g \in Procs |-> 1]
    /\ firstErr = [g \in Procs |-> Nil]
    /\ res = [g \in Procs |-> [done |-> FALSE, n |-> 0, err |-> Nil]]
    /\ written = <<>>
    /\ fwd = [g \in Procs |-> <<>>]
    /\ closeRet = FALSE
    /\ after = [g \in Procs |-> FALSE]
    /\ rcBefore = [g \in Procs |-> {}]
    /\ nWrites = 0
    /\ nextByte = 1
    /\ cres = [g \in Procs |-> "none"]

\* No broadcast is run.
NoBroadcast ==
    /\ path = "api"
    /\ cp = "done"
    /\ srcEnd = "none"
    /\ archSt = "run"
    /\ extSt = "run"
    /\ srcImgStoredURL = ""
    /\ readResult = Nil
    /\ wg = 0
    /\ mainpc = "done"
    /\ chLuggage = <<>>
    /\ sent = <<>>

\* The process around the broadcaster is not run.
NoProcess ==
    /\ mode = "mqtt"
    /\ hst = [h \in 1..MaxInFlight |-> [st |-> "idle", read |-> <<>>, url |-> "", pend |-> FALSE]]
    /\ sinkpc = "run"
    /\ latest = <<>>
    /\ ctxDone = FALSE
    /\ accepting = TRUE
    /\ nCloseCh = 0
    /\ shpc = "serve"
    /\ timedOut = FALSE
    /\ crashed = Nil
    /\ started = 0
    /\ faults = 0
    /\ nSent = 0
    /\ got = <<>>

Init ==
    /\ \E readerCount \in 1..MaxReaders : SingleInMultiOutPipe(readerCount)
    /\ InitCallers
    /\ NoBroadcast
    /\ NoProcess

\* One goroutine produces; every step of Write and Close is its own.
Next ==
    \/ \E len \in 0..MaxChunk : WriteCall("g1", len)
    \/ CloseCall("g1")
    \/ WriteLock("g1")
    \/ WriteForward("g1")
    \/ WriteForwardDone("g1")
    \/ WriteReturn("g1")
    \/ CloseLock("g1")
    \/ ClosePipe("g1")
    \/ CloseReturn("g1")
    \/ \E i \in Readers, k \in 1..(MaxChunk - 1) : Read(i, k)
    \/ \E i \in Readers : ReaderClose(i)

Spec == Init /\ [][Next]_vars

\* A goroutine that can run does run, and a reader that keeps reading reads.
Fairness ==
    /\ WF_vars(WriteLock("g1"))
    /\ WF_vars(WriteForward("g1"))
    /\ WF_vars(WriteForwardDone("g1"))
    /\ WF_vars(WriteReturn("g1"))
    /\ WF_vars(CloseLock("g1"))
    /\ WF_vars(ClosePipe("g1"))
    /\ WF_vars(CloseReturn("g1"))
    /\ \A i \in 1..(MaxReaders + 1) :
           WF_vars(i \in Readers /\ \E k \in 1..MaxChunk : Read(i, k))

FairSpec == Init /\ [][Next]_vars /\ Fairness

\* ------------------------------------------------- concurrent callers
\* Two goroutines use the same write-endpoint: each may call Write and Close
\* at any time, in any interleaving with the other's call.
ConcNext ==
    \/ \E g \in Procs, len \in 1..MaxChunk : WriteCall(g, len)
    \/ \E g \in Procs : CloseCall(g)
    \/ \E g \in Procs : WriteLock(g)
    \/ \E g \in Procs : WriteForward(g)
    \/ \E g \in Procs : WriteForwardDone(g)
    \/ \E g \in Procs : WriteReturn(g)
    \/ \E g \in Procs : CloseLock(g)
    \/ \E g \in Procs : ClosePipe(g)
    \/ \E g \in Procs : CloseReturn(g)
    \/ \E i \in Readers : Read(i, MaxChunk)

ConcSpec == Init /\ [][ConcNext]_vars

\* ------------------------------------------------------------- one broadcast
\* The copy goroutine is "g1"; the goroutine that runs the broadcast is "g2"
\* when it calls pIn.Close(). pOuts[0] is reader 1, pOuts[1] is reader 2.

\* io.Copy stops at the first Write that returns an error or a short count
WriteFailed(g) == res[g].done /\ (res[g].err # Nil \/ res[g].n # Len(chunk[g]))

PostImageResult_KeepURL(ok) ==
    IF ok THEN [url |-> StoredURL, err |-> Nil] ELSE [url |-> StoredURL, err |-> PostErr]

\* PostImage: the stored URL, or "" with the error
PostImageResult(ok) ==
    IF ok THEN [url |-> StoredURL, err |-> Nil] ELSE [url |-> "", err |-> PostErr]

\* ReadGasGuagePic: the reading, or nil with the error
ReadGasGuagePicResult(ok) == IF ok THEN Reading ELSE Nil

MakeLuggage_NoURL(rr, url) == [read |-> rr, url |-> ""]

\* &Luggage{GasMeterReadResult: readResult, SrcImageURL: srcImgStoredURL}
MakeLuggage(rr, url) == [read |-> rr, url |-> url]

\* main, lines 470-478: the single-shot path returns without sending
Abandons(geminiFailed, resultIsNil) == geminiFailed \/ resultIsNil

\* main, line 437: io.Copy reads a chunk of the image and writes it to pIn
CopyWrite(len) ==
    /\ path = "single"
    /\ cp = "copy"
    /\ ~WriteFailed("g1")
    /\ nWrites < MaxWrites
    /\ StartWrite("g1", len)
    /\ UNCHANGED bvars
    /\ UNCHANGED svars

\* main, line 437: io.Copy returns, at the end of the image, at a read error,
\* or after a Write that failed
CopyStop(how) ==
    /\ path = "single"
    /\ cp = "copy"
    /\ pc["g1"] = "idle"
    /\ cp' = "close"
    /\ srcEnd' = IF WriteFailed("g1") THEN srcEnd ELSE how
    /\ UNCHANGED <<path, archSt, extSt, srcImgStoredURL, readResult, wg, mainpc,
                   chLuggage, sent>>
    /\ UNCHANGED <<pvars, hvars>>
    /\ UNCHANGED svars

\* main, line 436: the copy goroutine's deferred pIn.Close()
CopyClose ==
    /\ path = "single"
    /\ cp = "close"
    /\ StartClose("g1")
    /\ cp' = "done"
    /\ UNCHANGED <<path, srcEnd, archSt, extSt, srcImgStoredURL, readResult, wg,
                   mainpc, chLuggage, sent>>
    /\ UNCHANGED svars

\* The MQTT client writes the next part of the message to the sink the
\* handler returned.
MqttWrite(len) ==
    /\ path = "mqtt"
    /\ cp = "copy"
    /\ nWrites < MaxWrites
    /\ StartWrite("g1", len)
    /\ UNCHANGED bvars
    /\ UNCHANGED svars

\* The message is exhausted, or receiving it fails.
MqttStop(how) ==
    /\ path = "mqtt"
    /\ cp = "copy"
    /\ pc["g1"] = "idle"
    /\ cp' = "close"
    /\ srcEnd' = how
    /\ UNCHANGED <<path, archSt, extSt, srcImgStoredURL, readResult, wg, mainpc,
                   chLuggage, sent>>
    /\ UNCHANGED <<pvars, hvars>>
    /\ UNCHANGED svars

\* The MQTT client closes the sink.
MqttClose ==
    /\ path = "mqtt"
    /\ cp = "close"
    /\ StartClose("g1")
    /\ cp' = "done"
    /\ UNCHANGED <<path, srcEnd, archSt, extSt, srcImgStoredURL, readResult, wg,
                   mainpc, chLuggage, sent>>
    /\ UNCHANGED svars

\* PostImage, concierge.go line 40: io.Copy(fileWriter, image) reads pOuts[0]
ArchiveRead(k) ==
    /\ archSt = "run"
    /\ Read(1, k)

\* PostImage returns, after it read the image to the end: the request
\* succeeded or failed; the task's deferred wg.Done()
ArchiveReturn(ok) ==
    /\ archSt = "run"
    /\ rstat[1] = EOF
    /\ archSt' = IF ok THEN "ok" ELSE "fail"
    /\ srcImgStoredURL' = PostImageResult(ok).url
    /\ wg' = wg - 1
    /\ UNCHANGED <<path, cp, srcEnd, extSt, readResult, mainpc, chLuggage, sent>>
    /\ UNCHANGED <<pvars, hvars>>
    /\ UNCHANGED svars

\* ReadGasGuagePic, gemini.go line 95: Files.Upload reads pOuts[1]
ExtractRead(k) ==
    /\ extSt = "run"
    /\ Read(2, k)

\* ReadGasGuagePic returns: a reading once the image was read to the end, or an
\* error at any point (the upload or the model call failed); the task's
\* deferred wg.Done()
ExtractReturn(ok) ==
    /\ extSt = "run"
    /\ ok => rstat[2] = EOF
    /\ extSt' = IF ok THEN "ok" ELSE "fail"
    /\ readResult' = ReadGasGuagePicResult(ok)
    /\ wg' = wg - 1
    /\ UNCHANGED <<path, cp, srcEnd, archSt, srcImgStoredURL, mainpc, chLuggage, sent>>
    /\ UNCHANGED <<pvars, hvars>>
    /\ UNCHANGED svars

WaitReturns_FirstDone == wg <= 1

\* wg.Wait() returns when the counter is zero: both tasks ran their wg.Done()
WaitReturns == wg = 0

\* wg.Wait() returns (main line 468, handler line 608); the handler goes on
\* to build and send the Luggage
Join ==
    /\ mainpc = "wait"
    /\ WaitReturns
    /\ mainpc' = IF path = "single" THEN "check" ELSE "send"
    /\ UNCHANGED <<path, cp, srcEnd, archSt, extSt, srcImgStoredURL, readResult, wg,
                   chLuggage, sent>>
    /\ UNCHANGED <<pvars, hvars>>
    /\ UNCHANGED svars

\* main, lines 470-478
Check ==
    /\ mainpc = "check"
    /\ mainpc' = IF Abandons(extSt = "fail", readResult = Nil) THEN "defer1" ELSE "send"
    /\ UNCHANGED <<path, cp, srcEnd, archSt, extSt, srcImgStoredURL, readResult, wg,
                   chLuggage, sent>>
    /\ UNCHANGED <<pvars, hvars>>
    /\ UNCHANGED svars

\* chLuggage <- l (main lines 480-484, handler lines 609-613)
Send ==
    /\ mainpc = "send"
    /\ Len(chLuggage) < LuggageCap
    /\ LET l == MakeLuggage(readResult, srcImgStoredURL) IN
           /\ chLuggage' = Append(chLuggage, l)
           /\ sent' = Append(sent, l)
    /\ mainpc' = "defer1"
    /\ UNCHANGED <<path, cp, srcEnd, archSt, extSt, srcImgStoredURL, readResult, wg>>
    /\ UNCHANGED <<pvars, hvars>>
    /\ UNCHANGED svars

\* the deferred pOuts[1].Close() (main line 432, handler line 572)
DeferCloseOut1 ==
    /\ mainpc = "defer1"
    /\ CloseReader(2)
    /\ mainpc' = "defer2"
    /\ UNCHANGED <<path, cp, srcEnd, archSt, extSt, srcImgStoredURL, readResult, wg,
                   chLuggage, sent>>
    /\ UNCHANGED svars

\* the deferred pOuts[0].Close() (main line 431, handler line 571)
DeferCloseOut0 ==
    /\ mainpc = "defer2"
    /\ CloseReader(1)
    /\ mainpc' = IF path = "single" THEN "defer3" ELSE "done"
    /\ UNCHANGED <<path, cp, srcEnd, archSt, extSt, srcImgStoredURL, readResult, wg,
                   chLuggage, sent>>
    /\ UNCHANGED svars

\* main, line 430: the deferred pIn.Close() is called
DeferCloseIn ==
    /\ mainpc = "defer3"
    /\ StartClose("g2")
    /\ mainpc' = "defer4"
    /\ UNCHANGED <<path, cp, srcEnd, archSt, extSt, srcImgStoredURL, readResult, wg,
                   chLuggage, sent>>
    /\ UNCHANGED svars

\* main, line 430: pIn.Close() has returned and the goroutine ends
MainReturn ==
    /\ mainpc = "defer4"
    /\ pc["g2"] = "idle"
    /\ mainpc' = "done"
    /\ UNCHANGED <<path, cp, srcEnd, archSt, extSt, srcImgStoredURL, readResult, wg,
                   chLuggage, sent>>
    /\ UNCHANGED <<pvars, hvars>>
    /\ UNCHANGED svars

\* main lines 429-446, handler lines 568-575: the Broadcast Set is made, the
\* tasks are started and wg.Add(2) is done
StartBroadcast(how) ==
    /\ path = how
    /\ cp = "copy"
    /\ srcEnd = "none"
    /\ archSt = "run"
    /\ extSt = "run"
    /\ srcImgStoredURL = ""
    /\ readResult = Nil
    /\ wg = 2
    /\ mainpc = "wait"
    /\ chLuggage = <<>>
    /\ sent = <<>>

BcastInit ==
    /\ SingleInMultiOutPipe(FanOut)
    /\ InitCallers
    /\ \E how \in {"single", "mqtt"} : StartBroadcast(how)
    /\ NoProcess

BcastNext ==
    \/ \E len \in 1..MaxChunk : CopyWrite(len)
    \/ \E how \in {EOF, "error"} : CopyStop(how)
    \/ CopyClose
    \/ \E len \in 1..MaxChunk : MqttWrite(len)
    \/ \E how \in {EOF, "error"} : MqttStop(how)
    \/ MqttClose
    \/ \E g \in Procs : WriteLock(g)
    \/ \E g \in Procs : WriteForward(g)
    \/ \E g \in Procs : WriteForwardDone(g)
    \/ \E g \in Procs : WriteReturn(g)
    \/ \E g \in Procs : CloseLock(g)
    \/ \E g \in Procs : ClosePipe(g)
    \/ \E g \in Procs : CloseReturn(g)
    \/ \E k \in 1..MaxChunk : ArchiveRead(k)
    \/ \E ok \in BOOLEAN : ArchiveReturn(ok)
    \/ \E k \in 1..MaxChunk : ExtractRead(k)
    \/ \E ok \in BOOLEAN : ExtractReturn(ok)
    \/ Join
    \/ Check
    \/ Send
    \/ DeferCloseOut1
    \/ DeferCloseOut0
    \/ DeferCloseIn
    \/ MainReturn

BcastSpec == BcastInit /\ [][BcastNext]_vars

\* A goroutine that can run does run; the source yields its next chunk or
\* ends; a consumer that has not returned keeps reading, and returns once it
\* has read its stream to the end. Nothing makes a consumer fail.
BcastFairness ==
    /\ WF_vars((\E len \in 1..MaxChunk : CopyWrite(len)) \/ \E how \in {EOF, "error"} : CopyStop(how))
    /\ WF_vars(CopyClose)
    /\ WF_vars((\E len \in 1..MaxChunk : MqttWrite(len)) \/ \E how \in {EOF, "error"} : MqttStop(how))
    /\ WF_vars(MqttClose)
    /\ \A g \in Procs :
        /\ WF_vars(WriteLock(g))
        /\ WF_vars(WriteForward(g))
        /\ WF_vars(WriteForwardDone(g))
        /\ WF_vars(WriteReturn(g))
        /\ WF_vars(CloseLock(g))
        /\ WF_vars(ClosePipe(g))
        /\ WF_vars(CloseReturn(g))
    /\ WF_vars(\E k \in 1..MaxChunk : ArchiveRead(k))
    /\ WF_vars(\E ok \in BOOLEAN : ArchiveReturn(ok))
    /\ WF_vars(\E k \in 1..MaxChunk : ExtractRead(k))
    /\ WF_vars(ExtractReturn(TRUE))
    /\ WF_vars(Join)
    /\ WF_vars(Check)
    /\ WF_vars(Send)
    /\ WF_vars(DeferCloseOut1)
    /\ WF_vars(DeferCloseOut0)
    /\ WF_vars(DeferCloseIn)
    /\ WF_vars(MainReturn)

BcastFairSpec == BcastInit /\ [][BcastNext]_vars /\ BcastFairness

\* ------------------------------------------------------------- the process
\* main.go as a whole: the MQTT client calls mqttReadGuageSubHandler for each
\* message (or main runs the one single-shot broadcast), every broadcast ends
\* in a send on chLuggage, the sink goroutine receives, and main runs the
\* shutdown sequence after a signal. A broadcast is taken here from its start
\* to its join in one step; its inside is BcastSpec.
Slots == 1..MaxInFlight

\* the process runs: no goroutine has panicked and main has not returned
Alive == crashed = Nil /\ shpc # "exit"

ChOpen == nCloseCh = 0

\* the Read field of a GasMeterReadResult, by its characters
GoodRead == <<"1", "2", "3", ".", "4">>
BadReads == {<<>>, <<"x">>}

IsDigit(c) == c \in {"0", "1", "2", "3", "4", "5", "6", "7", "8", "9"}

DigitVal(c) ==
    CASE c = "0" -> 0 [] c = "1" -> 1 [] c = "2" -> 2 [] c = "3" -> 3 [] c = "4" -> 4
      [] c = "5" -> 5 [] c = "6" -> 6 [] c = "7" -> 7 [] c = "8" -> 8 [] c = "9" -> 9

\* the number the digits of s spell, the point left out
RECURSIVE Mantissa(_)
Mantissa(s) ==
    IF s = <<>> THEN 0
    ELSE LET c == s[Len(s)]
             m == Mantissa(Take(s, Len(s) - 1))
         IN  IF IsDigit(c) THEN 10 * m + DigitVal(c) ELSE m

\* strconv.ParseFloat(s, 64) on a string of digits, points and letters: a
\* decimal number has at least one digit, at most one point and nothing else;
\* its value is mant / 10^frac
ParseFloat(s) ==
    LET points == {k \in 1..Len(s) : s[k] = "."}
        digits == {k \in 1..Len(s) : IsDigit(s[k])}
        syntax == /\ digits # {}
                  /\ Cardinality(points) <= 1
                  /\ points \cup digits = 1..Len(s)
    IN  IF syntax
        THEN [val |-> [mant |-> Mantissa(s),
                       frac |-> IF points = {} THEN 0
                                ELSE Len(s) - (CHOOSE k \in points : TRUE)],
              err |-> Nil]
        ELSE [val |-> [mant |-> 0, frac |-> 0], err |-> "strconv.ErrSyntax"]

SinkSkips_Never(err) == FALSE

\* sink, lines 399-402: a reading that does not parse is logged and skipped
SinkSkips(err) == err # Nil

\* what sensorServer holds before the first SetValue
NoValue == <<>>

\* sensorServer.SetValue(read, readResult): the value and the artifact it is from
SetValue(read, rr) == <<[value |-> read, meta |-> rr]>>

SendResult_DropOnClosed(open, len) ==
    IF ~open THEN "drop" ELSE IF len < LuggageCap THEN "sent" ELSE "block"

\* chLuggage <- l: a send on a closed channel panics, a send on a full channel
\* blocks, any other puts l at the end of the buffer
SendResult(open, len) ==
    IF ~open THEN "panic" ELSE IF len < LuggageCap THEN "sent" ELSE "block"

\* readResult, a *GasMeterReadResult: the nil pointer, or a result with its
\* Read field
NilResult == <<>>
Result(read) == <<read>>

\* what the extraction task may leave in readResult
ExtOutcomes == {NilResult, Result(GoodRead)} \cup {Result(r) : r \in BadReads}

IsFault(archOk, rr) == ~archOk \/ rr # Result(GoodRead)

idleSys == <<pvars, hvars, bfix>>

\* The MQTT client has a new message and calls the handler, which makes the
\* pipes and starts the goroutine of the broadcast (lines 568-578).
HandlerCall(h) ==
    /\ Alive
    /\ mode = "mqtt"
    /\ accepting
    /\ started < MaxBroadcasts
    /\ hst[h].st = "idle"
    /\ \A j \in 1..(h - 1) : hst[j].st # "idle"
    /\ hst' = [hst EXCEPT ![h] = [st |-> "run", read |-> NilResult, url |-> "", pend |-> FALSE]]
    /\ started' = started + 1
    /\ UNCHANGED <<mode, sinkpc, latest, ctxDone, accepting, nCloseCh, shpc, timedOut,
                   crashed, faults, got>>
    /\ UNCHANGED <<chLuggage, sent, nSent>>
    /\ UNCHANGED idleSys

\* main, lines 419-446: the single-shot broadcast is started
SingleShot ==
    /\ Alive
    /\ mode = "single"
    /\ started = 0
    /\ hst' = [hst EXCEPT ![1] = [st |-> "run", read |-> NilResult, url |-> "", pend |-> FALSE]]
    /\ started' = 1
    /\ UNCHANGED <<mode, sinkpc, latest, ctxDone, accepting, nCloseCh, shpc, timedOut,
                   crashed, faults, got>>
    /\ UNCHANGED <<chLuggage, sent, nSent>>
    /\ UNCHANGED idleSys

\* Both tasks of broadcast h have returned and wg.Wait() returns: the handler
\* goes on to send whatever readResult holds (lines 608-612), the single-shot
\* path returns without sending when the extraction failed (lines 470-478).
TasksReturn(h, archOk, rr) ==
    /\ Alive
    /\ hst[h].st = "run"
    /\ IsFault(archOk, rr) => faults < MaxFaults
    /\ faults' = IF IsFault(archOk, rr) THEN faults + 1 ELSE faults
    /\ hst' = [hst EXCEPT ![h] =
           [st   |-> IF mode = "single" /\ Abandons(rr = NilResult, rr = NilResult) THEN "idle" ELSE "send",
            read |-> rr,
            url  |-> PostImageResult(archOk).url,
            pend |-> FALSE]]
    /\ UNCHANGED <<mode, sinkpc, latest, ctxDone, accepting, nCloseCh, shpc, timedOut,
                   crashed, started, got>>
    /\ UNCHANGED <<chLuggage, sent, nSent>>
    /\ UNCHANGED idleSys

\* chLuggage <- l of broadcast h (main line 484, handler line 613); the
\* goroutine of the broadcast ends after it
SendLuggage(h) ==
    /\ Alive
    /\ hst[h].st = "send"
    /\ LET how == SendResult(ChOpen, Len(chLuggage))
           l   == [seq |-> nSent + 1] @@ MakeLuggage(hst[h].read, hst[h].url)
       IN  /\ how # "block"
           /\ IF how = "sent"
              THEN /\ chLuggage' = Append(chLuggage, l)
                   /\ nSent' = nSent + 1
              ELSE UNCHANGED <<chLuggage, nSent>>
           /\ hst' = [hst EXCEPT ![h] = [@ EXCEPT !.st = IF how = "panic" THEN "panic"
                                                        ELSE "idle"]]
           /\ crashed' = IF how = "panic" THEN "send on closed channel" ELSE crashed
    /\ UNCHANGED <<mode, sinkpc, latest, ctxDone, accepting, nCloseCh, shpc, timedOut,
                   started, faults, got>>
    /\ UNCHANGED sent
    /\ UNCHANGED idleSys

\* sink, lines 387-405: a Luggage is received; readResult.Read of a Luggage
\* whose GasMeterReadResult is nil is a nil pointer dereference
SinkReceive ==
    /\ Alive
    /\ sinkpc = "run"
    /\ chLuggage # <<>>
    /\ LET l == Head(chLuggage) IN
       /\ chLuggage' = Tail(chLuggage)
       /\ got' = Append(got, l.seq)
       /\ IF l.read = NilResult
          THEN /\ sinkpc' = "panic"
               /\ crashed' = "nil pointer dereference"
               /\ UNCHANGED latest
          ELSE LET p == ParseFloat(l.read[1]) IN
               /\ latest' = IF SinkSkips(p.err) THEN latest ELSE SetValue(p.val, l)
               /\ UNCHANGED <<sinkpc, crashed>>
    /\ UNCHANGED <<mode, hst, ctxDone, accepting, nCloseCh, shpc, timedOut, started,
                   faults, nSent>>
    /\ UNCHANGED sent
    /\ UNCHANGED idleSys

\* sink, lines 387-390: the receive on the closed and empty channel
SinkClosed ==
    /\ Alive
    /\ sinkpc = "run"
    /\ chLuggage = <<>>
    /\ ~ChOpen
    /\ sinkpc' = "exited"
    /\ UNCHANGED <<mode, hst, latest, ctxDone, accepting, nCloseCh, shpc, timedOut,
                   crashed, started, faults, got>>
    /\ UNCHANGED <<chLuggage, sent, nSent>>
    /\ UNCHANGED idleSys

\* sink, lines 385-386: the select takes ctx.Done(), whatever is in the channel
SinkCtxDone ==
    /\ Alive
    /\ sinkpc = "run"
    /\ ctxDone
    /\ sinkpc' = "exited"
    /\ UNCHANGED <<mode, hst, latest, ctxDone, accepting, nCloseCh, shpc, timedOut,
                   crashed, started, faults, got>>
    /\ UNCHANGED <<chLuggage, sent, nSent>>
    /\ UNCHANGED idleSys

\* main, lines 524-528: the signal arrives and cancel() is called; a send that
\* waits on the full channel at this moment is marked
Cancel ==
    /\ Alive
    /\ shpc = "serve"
    /\ ctxDone' = TRUE
    /\ shpc' = "stop"
    /\ hst' = [h \in Slots |->
                 [hst[h] EXCEPT !.pend = hst[h].st = "send"
                                         /\ Len(chLuggage) = LuggageCap]]
    /\ UNCHANGED <<mode, sinkpc, latest, accepting, nCloseCh, timedOut, crashed,
                   started, faults, got>>
    /\ UNCHANGED <<chLuggage, sent, nSent>>
    /\ UNCHANGED idleSys

\* main, lines 531-536: mqttClient.Stop(); no handler is called after it
StopClient ==
    /\ Alive
    /\ shpc = "stop"
    /\ accepting' = FALSE
    /\ shpc' = "close"
    /\ UNCHANGED <<mode, hst, sinkpc, latest, ctxDone, nCloseCh, timedOut, crashed,
                   started, faults, got>>
    /\ UNCHANGED <<chLuggage, sent, nSent>>
    /\ UNCHANGED idleSys

\* main, lines 539-546: close(chLuggage), then the HTTP server is shut down
CloseChannel ==
    /\ Alive
    /\ shpc = "close"
    /\ nCloseCh' = nCloseCh + 1
    /\ crashed' = IF ChOpen THEN crashed ELSE "close of closed channel"
    /\ shpc' = "grace"
    /\ UNCHANGED <<mode, hst, sinkpc, latest, ctxDone, accepting, timedOut, started,
                   faults, got>>
    /\ UNCHANGED <<chLuggage, sent, nSent>>
    /\ UNCHANGED idleSys

\* main, lines 550-562: wg.Wait() returns (the sink goroutine and the
\* goroutine of line 416 have ended) and main returns
GraceDone ==
    /\ Alive
    /\ shpc = "grace"
    /\ sinkpc = "exited"
    /\ mode = "single" => started = 1 /\ hst[1].st = "idle"
    /\ shpc' = "exit"
    /\ UNCHANGED <<mode, hst, sinkpc, latest, ctxDone, accepting, nCloseCh, timedOut,
                   crashed, started, faults, got>>
    /\ UNCHANGED <<chLuggage, sent, nSent>>
    /\ UNCHANGED idleSys

\* main, lines 558-562: the five seconds pass first and main returns
GraceTimeout ==
    /\ Alive
    /\ shpc = "grace"
    /\ timedOut' = TRUE
    /\ shpc' = "exit"
    /\ UNCHANGED <<mode, hst, sinkpc, latest, ctxDone, accepting, nCloseCh, crashed,
                   started, faults, got>>
    /\ UNCHANGED <<chLuggage, sent, nSent>>
    /\ UNCHANGED idleSys

\* main, lines 377-417: the channel is made, the sink goroutine is started
SysInit ==
    /\ SingleInMultiOutPipe(FanOut)
    /\ InitCallers
    /\ NoBroadcast
    /\ mode \in {"single", "mqtt"}
    /\ hst = [h \in Slots |-> [st |-> "idle", read |-> NilResult, url |-> "", pend |-> FALSE]]
    /\ sinkpc = "run"
    /\ latest = NoValue
    /\ ctxDone = FALSE
    /\ accepting = TRUE
    /\ nCloseCh = 0
    /\ shpc = "serve"
    /\ timedOut = FALSE
    /\ crashed = Nil
    /\ started = 0
    /\ faults = 0
    /\ nSent = 0
    /\ got = <<>>

SysNext ==
    \/ \E h \in Slots : HandlerCall(h)
    \/ SingleShot
    \/ \E h \in Slots, archOk \in BOOLEAN, rr \in ExtOutcomes : TasksReturn(h, archOk, rr)
    \/ \E h \in Slots : SendLuggage(h)
    \/ SinkReceive
    \/ SinkClosed
    \/ SinkCtxDone
    \/ Cancel
    \/ StopClient
    \/ CloseChannel
    \/ GraceDone
    \/ GraceTimeout

SysSpec == SysInit /\ [][SysNext]_vars

\* ------------------------------------------------------------- properties
\* the bytes of every reader's stream, taken together
Delivered == UNION {Range(received[i]) : i \in Readers}

\* a Write that passed the closed check has made at least one forward
Accepted(g) == Len(fwd[g]) > 0

\* the first failure of a Write's forwards, in pipe order
RECURSIVE FirstFailure(_, _, _)
FirstFailure(log, k, lenp) ==
    IF k > Len(log) THEN Nil
    ELSE IF log[k].err # Nil THEN log[k].err
    ELSE IF log[k].n # lenp THEN ErrShortWrite
    ELSE FirstFailure(log, k + 1, lenp)

\* C1: every reader that has read to end-of-stream has received exactly the
\* concatenation of the chunks written, in order, nothing repeated and nothing
\* missing; until then what it has received is a prefix of that concatenation.
C1_EveryReaderGetsTheStream ==
    \A i \in Readers :
        /\ IsPrefix(received[i], written)
        /\ rstat[i] = EOF => received[i] = written

C1_Witness ==
    /\ n >= 2
    /\ nWrites >= 2
    /\ Len(written) >= 3
    /\ \A i \in Readers : rstat[i] = EOF /\ received[i] = written

\* C2: once Close on the write-endpoint has returned, every reader that keeps
\* reading (has not closed its own end) comes to observe end-of-stream, and a
\* reader observes end-of-stream only at a closed endpoint with every byte of
\* every completed Write received and no other byte.
C2_EndOfStreamAfterClose ==
    /\ [](\A i \in Readers : rstat[i] = EOF =>
              closed /\ pipe[i].wclosed /\ received[i] = written)
    /\ closeRet ~> (\A i \in Readers : rstat[i] = EOF \/ pipe[i].rclosed)

C2_Witness ==
    /\ closeRet
    /\ n >= 2
    /\ nWrites = 1
    /\ Len(written) = 2
    /\ \A i \in Readers : rstat[i] = EOF /\ ~pipe[i].rclosed

\* C3: a Write that begins after a Close on the write-endpoint returned never
\* holds the lock while blocked, never forwards, returns (0, ErrClosedPipe), and
\* no byte of its chunk reaches any reader.
C3_WriteAfterCloseRejected ==
    \A g \in Procs :
        after[g] =>
            /\ pc[g] \notin {"W38", "W39", "W48"}
            /\ pc[g] = "W28" => mu = NoOne
            /\ res[g].done => res[g].n = 0 /\ res[g].err = ErrClosedPipe
            /\ Range(chunk[g]) \cap Delivered = {}
            /\ ~Accepted(g)

C3_Witness ==
    /\ after["g1"]
    /\ res["g1"].done
    /\ Len(chunk["g1"]) = 2
    /\ \E i \in Readers : rstat[i] = "open" /\ ~pipe[i].rclosed

\* C4: a reader's end is closed only by its own Close; a Write that begins
\* after some reader closed never waits on that reader's pipe, a Write blocked
\* on a pipe whose reader closes can return, and such a Write returns an error
\* and has delivered its whole chunk to every reader still open; a surviving
\* reader that reads to end-of-stream has the whole stream.
C4_EarlyReaderCloseIsolated ==
    /\ [][\A i \in Readers :
            (~pipe[i].rclosed /\ pipe'[i].rclosed) =>
                \A j \in Readers \ {i} : pipe'[j].rclosed = pipe[j].rclosed]_vars
    /\ [](\A g \in Procs :
            /\ pc[g] = "W39" => idx[g] \notin rcBefore[g]
            /\ (pc[g] = "W39" /\ pipe[idx[g]].rclosed) => ENABLED WriteForwardDone(g)
            /\ (res[g].done /\ rcBefore[g] # {}) => res[g].err # Nil
            /\ (res[g].done /\ Accepted(g)) =>
                   /\ res[g].n = Len(chunk[g])
                   /\ \A i \in Readers :
                          ~pipe[i].rclosed => Range(chunk[g]) \subseteq Range(received[i]))
    /\ [](\A i \in Readers :
            (rstat[i] = EOF /\ \E j \in Readers : pipe[j].rclosed) =>
                received[i] = written)

C4_Witness ==
    /\ n >= 2
    /\ pipe[1].rclosed
    /\ ~pipe[2].rclosed
    /\ rstat[2] = EOF
    /\ Len(received[1]) < Len(written)
    /\ received[2] = written
    /\ res["g1"].done
    /\ res["g1"].err = ErrClosedPipe
    /\ res["g1"].n = 2
    /\ rcBefore["g1"] = {1}

\* C10: a Write on an open endpoint forwards to every one of the n pipes,
\* whatever the earlier forwards returned, and returns the full chunk length
\* with the first failure in pipe order (nil when no forward failed).
C10_WriteForwardsToAll ==
    \A g \in Procs :
        /\ pc[g] = "W48" => Len(fwd[g]) = n
        /\ (res[g].done /\ Accepted(g)) =>
               /\ Len(fwd[g]) = n
               /\ res[g].n = Len(chunk[g])
               /\ res[g].err = FirstFailure(fwd[g], 1, Len(chunk[g]))

C10_Witness ==
    /\ n >= 2
    /\ res["g1"].done
    /\ Len(fwd["g1"]) = 2
    /\ fwd["g1"][1] = [n |-> 1, err |-> ErrClosedPipe]
    /\ fwd["g1"][2] = [n |-> 2, err |-> Nil]
    /\ res["g1"].n = 2
    /\ res["g1"].err = ErrClosedPipe

\* every task of the broadcast has ended
Terminated ==
    /\ mainpc = "done"
    /\ cp = "done"
    /\ pc["g1"] = "idle"
    /\ archSt # "run"
    /\ extSt # "run"

\* C5: when the extraction task fails, at whatever point of its stream, no
\* Luggage is sent, and the broadcast is never stuck: until the join has
\* returned and the copy task and both consumer tasks have ended, some task
\* can take a step.
C5_ExtractionFailureStillJoins ==
    extSt = "fail" =>
        /\ sent = <<>>
        /\ Terminated \/ ENABLED BcastNext

\* C6: no Luggage is sent for a broadcast whose extraction task returned an
\* error or a nil reading: every Luggage sent carries a reading.
C6_NoLuggageWithoutReading ==
    /\ (extSt = "fail" \/ (extSt = "ok" /\ readResult = Nil)) => sent = <<>>
    /\ \A k \in 1..Len(sent) : sent[k].read # Nil

\* C7: when the archival task failed and the extraction task succeeded, one
\* Luggage is sent and no more, with the reading and an empty SrcImageURL.
C7_ArchivalFailureIsNotFatal ==
    /\ []((archSt = "fail" /\ extSt = "ok") =>
            /\ Len(sent) <= 1
            /\ \A k \in 1..Len(sent) : sent[k] = [read |-> Reading, url |-> ""]
            /\ mainpc \in {"defer1", "defer2", "defer3", "defer4", "done"} => Len(sent) = 1)
    /\ (archSt = "fail" /\ extSt = "ok") ~> (Len(sent) = 1)

C7_Witness ==
    /\ archSt = "fail"
    /\ extSt = "ok"
    /\ mainpc = "done"
    /\ Len(written) >= 2
    /\ sent = <<[read |-> Reading, url |-> ""]>>

\* C8: when the source was read to its end without error and both tasks read
\* their streams to the end and succeeded, one Luggage is sent and no more,
\* with the reading and the stored URL.
C8_OneLuggagePerBroadcast ==
    /\ []((srcEnd = EOF /\ archSt = "ok" /\ extSt = "ok") =>
            /\ Len(sent) <= 1
            /\ \A k \in 1..Len(sent) : sent[k] = [read |-> Reading, url |-> StoredURL]
            /\ mainpc \in {"defer1", "defer2", "defer3", "defer4", "done"} => Len(sent) = 1)
    /\ (srcEnd = EOF /\ archSt = "ok" /\ extSt = "ok") ~> (Len(sent) = 1)

C8_Witness ==
    /\ srcEnd = EOF
    /\ archSt = "ok"
    /\ extSt = "ok"
    /\ mainpc = "done"
    /\ received[1] = written
    /\ received[2] = written
    /\ Len(written) >= 2
    /\ sent = <<[read |-> Reading, url |-> StoredURL]>>

\* C9: when the source fails after k bytes, each consumer's stream ends after
\* exactly those k bytes, no Luggage is sent, and the broadcast is never stuck
\* before every task has ended, with the write-endpoint closed.
C9_SourceErrorAbandons ==
    srcEnd = "error" =>
        /\ sent = <<>>
        /\ \A i \in Readers : rstat[i] = EOF => received[i] = written
        /\ Terminated => closed
        /\ Terminated \/ ENABLED BcastNext

\* g is inside the locked part of Write (forwarding) or of Close (closing)
InWrite(g) == pc[g] \in {"W38", "W39", "W48"}
InClose(g) == pc[g] \in {"C64", "C70"}

\* C11: over any number of Close calls on the write-endpoint, one after the
\* other or at once, each pipe writer is closed once and no more; when a Close
\* has returned every one of the n pipes is closed; every Close returns nil; a
\* Close that finds the endpoint closed changes nothing of the endpoint.
C11_CloseIdempotent ==
    /\ [](\A i \in Readers :
            /\ pipe[i].wcloses <= 1
            /\ pipe[i].wclosed <=> pipe[i].wcloses = 1)
    /\ [](closeRet => \A i \in Readers : pipe[i].wcloses = 1)
    /\ [](\A g \in Procs : cres[g] \in {"none", Nil})
    /\ [][\A g \in Procs :
            (pc[g] = "C55" /\ closed /\ pc'[g] = "idle") =>
                /\ cres'[g] = Nil
                /\ <<n, closed, mu, pipe, received, rstat>>' =
                   <<n, closed, mu, pipe, received, rstat>>]_vars

C11_Witness ==
    /\ n >= 2
    /\ nWrites >= 1
    /\ cres["g1"] = Nil
    /\ cres["g2"] = Nil
    /\ pc["g1"] = "idle"
    /\ pc["g2"] = "idle"
    /\ \A i \in Readers : pipe[i].wcloses = 1

\* C12: a Write and a Close on the same endpoint are never inside their
\* locked parts together: while a Write forwards no pipe is closed by Close,
\* and a Write that has returned either forwarded its whole chunk to every
\* pipe or saw the endpoint closed and forwarded to none.
C12_WriteCloseExclusive ==
    \A g \in Procs :
        /\ (InWrite(g) \/ InClose(g)) =>
               /\ mu = g
               /\ \A h \in Procs \ {g} : ~InWrite(h) /\ ~InClose(h)
        /\ InWrite(g) => \A i \in Readers : ~pipe[i].wclosed
        /\ res[g].done =>
               \/ /\ ~Accepted(g)
                  /\ res[g].n = 0
                  /\ res[g].err = ErrClosedPipe
                  /\ Range(chunk[g]) \cap Delivered = {}
               \/ /\ Len(fwd[g]) = n
                  /\ \A k \in 1..n : fwd[g][k] = [n |-> Len(chunk[g]), err |-> Nil]
                  /\ res[g].err = Nil

C12_Witness ==
    /\ n >= 2
    /\ pc["g1"] = "W39"
    /\ idx["g1"] = 2
    /\ pc["g2"] = "C55"
    /\ ~closed
    /\ Len(received[1]) > Len(received[2])

\* the length of the chunk a Write is forwarding, 0 when no Write is
CurrentChunk == IF \E g \in Procs : InWrite(g)
                THEN Len(chunk[CHOOSE g \in Procs : InWrite(g)]) ELSE 0

\* C18: a Write returns only when every reader still open has the whole
\* chunk; a forward to an open reader that has not taken the whole chunk stays
\* blocked; no reader has a byte past the chunk being written, and a reader
\* still open lacks at most that chunk.
C18_SlowReaderBlocksWrite ==
    /\ \A g \in Procs :
        /\ (res[g].done /\ Accepted(g)) =>
               \A i \in Readers :
                   ~pipe[i].rclosed => Range(chunk[g]) \subseteq Range(received[i])
        /\ (pc[g] = "W39" /\ ~ForwardComplete(idx[g]) /\ ~PipeDone(idx[g])) =>
               ~ENABLED WriteForwardDone(g)
        /\ InWrite(g) => ~ENABLED (\E len \in 0..MaxChunk : WriteCall(g, len))
    /\ \A i \in Readers :
        /\ IsPrefix(received[i], written)
        /\ ~pipe[i].rclosed => Len(received[i]) >= Len(written) - CurrentChunk
    /\ \A i, j \in Readers :
        (~pipe[i].rclosed /\ ~pipe[j].rclosed) =>
            Len(received[i]) - Len(received[j]) <= CurrentChunk

C18_Witness ==
    /\ n >= 2
    /\ nWrites = 2
    /\ pc["g1"] = "W39"
    /\ idx["g1"] = 2
    /\ Len(chunk["g1"]) = 2
    /\ ~pipe[1].rclosed
    /\ ~pipe[2].rclosed
    /\ received[1] = written
    /\ Len(received[2]) = Len(written) - 2
    /\ Len(received[2]) > 0

\* C17: the join returns only after the archival task and the extraction
\* task have both returned, whichever ended first and however it ended: past
\* the join, and so whenever a Luggage was sent or the broadcast was abandoned,
\* neither task is running, and the counter is the number of running tasks.
C17_JoinWaitsForBoth ==
    /\ mainpc # "wait" => archSt # "run" /\ extSt # "run"
    /\ sent # <<>> => archSt # "run" /\ extSt # "run"
    /\ wg = (IF archSt = "run" THEN 1 ELSE 0) + (IF extSt = "run" THEN 1 ELSE 0)

C17_Witness ==
    /\ mainpc = "defer1"
    /\ archSt = "fail"
    /\ extSt = "ok"
    /\ Len(sent) = 1
    /\ wg = 0

\* a broadcast that has started and not yet ended
InFlight(h) == hst[h].st \in {"run", "send"}

\* the Luggage of the queue, by the numbers of their sends
Queued == [k \in 1..Len(chLuggage) |-> chLuggage[k].seq]

\* C13: while chLuggage is open no Luggage sent is dropped: the queue never
\* holds more than 10, a send on the full queue cannot complete before the
\* sink receives, what the sink received followed by what is queued is every
\* Luggage sent, in the order of the sends and each once, and a queued
\* Luggage has the sink goroutine to receive it.
C13_QueueNeverDrops ==
    /\ Len(chLuggage) <= LuggageCap
    /\ got \o Queued = [k \in 1..nSent |-> k]
    /\ \A h \in Slots :
           (hst[h].st = "send" /\ ChOpen /\ Len(chLuggage) = LuggageCap) =>
               ~ENABLED SendLuggage(h)
    /\ (ChOpen /\ chLuggage # <<>>) => sinkpc = "run"

\* C14: close(chLuggage) is called once at most, and a send on the closed
\* channel never returns as if it had sent: it panics, and the Luggage is in
\* no queue.
C14_SendAfterCloseIsLoud ==
    /\ [](nCloseCh <= 1)
    /\ [](crashed # "close of closed channel")
    /\ [][\A h \in Slots :
            (hst[h].st = "send" /\ ~ChOpen /\ hst'[h].st # "send") =>
                /\ hst'[h].st = "panic"
                /\ crashed' = "send on closed channel"
                /\ chLuggage' = chLuggage
                /\ nSent' = nSent]_vars

C14_Witness ==
    /\ nCloseCh = 1
    /\ crashed = "send on closed channel"
    /\ \E h \in Slots : hst[h].st = "panic" /\ hst[h].read = Result(GoodRead)

\* C15: a failure inside one broadcast does not keep the artifact of another
\* from the sink: when the sink goroutine has ended in the panic over the
\* Luggage of a broadcast whose extraction failed, no Luggage of another
\* broadcast is queued and no other broadcast is in flight.
C15_BroadcastsIsolated ==
    sinkpc = "panic" =>
        /\ chLuggage = <<>>
        /\ \A h \in Slots : ~InFlight(h)

\* C16: no value is set until the sink has received a Luggage with a reading
\* that parses, and the latest value changes only in a step of the sink
\* goroutine that receives a Luggage whose reading is there and parses as a
\* number, to that number.
C16_LatestOnlyFromGoodReading ==
    /\ [](latest # NoValue =>
            /\ latest[1].meta.seq \in Range(got)
            /\ latest[1].meta.read # NilResult
            /\ ParseFloat(latest[1].meta.read[1]) = [val |-> latest[1].value, err |-> Nil])
    /\ [](got = <<>> => latest = NoValue)
    /\ [][latest' # latest =>
            /\ sinkpc = "run"
            /\ chLuggage # <<>>
            /\ got' = Append(got, Head(chLuggage).seq)
            /\ Head(chLuggage).read # NilResult
            /\ ParseFloat(Head(chLuggage).read[1]).err = Nil
            /\ latest' = <<[value |-> ParseFloat(Head(chLuggage).read[1]).val,
                            meta  |-> Head(chLuggage)]>>]_vars

C16_Witness ==
    /\ Len(got) = 3
    /\ latest # NoValue
    /\ latest[1].meta.seq = 2
    /\ latest[1].value = [mant |-> 1234, frac |-> 1]
    /\ faults = 1
    /\ sinkpc = "run"

\* C19: chLuggage is closed only when no broadcast is in flight any more, or
\* after the wait of the shutdown sequence ended by its timeout.
C19_CloseAfterInFlight ==
    ~ChOpen => (\A h \in Slots : ~InFlight(h)) \/ timedOut

\* C20: a send that waits on the full queue when the shutdown begins ends
\* without a panic, and the process does not crash over it.
C20_PendingSendAbandoned ==
    \A h \in Slots :
        hst[h].pend => hst[h].st # "panic" /\ crashed # "send on closed channel"

\* ------------------------------------------------- cancellation and a broadcast
\* main, line 528: cancel() is called while the broadcast runs. No task of
\* the broadcast holds ctx: ReadGasGuagePic is given context.Background()
\* (lines 462 and 596), PostImage and io.Copy take no context.
CancelCtx ==
    /\ ~ctxDone
    /\ ctxDone' = TRUE
    /\ UNCHANGED <<mode, hst, sinkpc, latest, accepting, nCloseCh, shpc, timedOut,
                   crashed, started, faults, nSent, got>>
    /\ UNCHANGED <<pvars, hvars, bvars>>

CancelNext ==
    \/ BcastNext
    \/ CancelCtx

\* Every goroutine that can run does run, and a consumer that has read its
\* stream to the end returns; the source may stop producing and a consumer
\* may stall in the middle of its stream.
CancelFairness ==
    /\ WF_vars(CopyClose)
    /\ WF_vars(MqttClose)
    /\ \A g \in Procs :
        /\ WF_vars(WriteLock(g))
        /\ WF_vars(WriteForward(g))
        /\ WF_vars(WriteForwardDone(g))
        /\ WF_vars(WriteReturn(g))
        /\ WF_vars(CloseLock(g))
        /\ WF_vars(ClosePipe(g))
        /\ WF_vars(CloseReturn(g))
    /\ WF_vars(\E ok \in BOOLEAN : ArchiveReturn(ok))
    /\ WF_vars(ExtractReturn(TRUE))
    /\ WF_vars(Join)
    /\ WF_vars(Check)
    /\ WF_vars(Send)
    /\ WF_vars(DeferCloseOut1)
    /\ WF_vars(DeferCloseOut0)
    /\ WF_vars(DeferCloseIn)
    /\ WF_vars(MainReturn)

CancelFairSpec == BcastInit /\ [][CancelNext]_vars /\ CancelFairness

\* C21: after cancel() the copy task and both consumer tasks of the broadcast
\* in flight come to an end, and with them the broadcast, even when the
\* source stops producing or a consumer stalls: no Write stays blocked on a
\* reader that does not read.
C21_CancelUnwindsTasks == ctxDone ~> Terminated

ConcReadNext ==
    \/ ConcNext
    \/ \E i \in Readers, k \in 1..(MaxChunk - 1) : Read(i, k)
    \/ \E i \in Readers : ReaderClose(i)

ConcReadSpec == Init /\ [][ConcReadNext]_vars

\* the bytes of chunk c that are in stream s stand together in s, in the
\* order of c, from the first byte of c on
ChunkContiguous(s, c) ==
    \/ Range(s) \cap Range(c) = {}
    \/ \E o \in 0..Len(s) :
          /\ \A k \in 1..Len(c) : o + k <= Len(s) => s[o + k] = c[k]
          /\ \A p \in 1..Len(s) : s[p] \in Range(c) => (p > o /\ p <= o + Len(c))

\* C23: with several goroutines calling Write at once, the streams of any two
\* readers are one a prefix of the other (every reader gets the chunks in the
\* same order, the order in which the Writes took the lock), and in every
\* reader's stream the bytes of a chunk stand together, in order, with no byte
\* of another chunk among them.
C23_ConcurrentWritesOrdered ==
    /\ \A i, j \in Readers :
           IsPrefix(received[i], received[j]) \/ IsPrefix(received[j], received[i])
    /\ \A i \in Readers :
           /\ IsPrefix(received[i], written)
           /\ \A g \in Procs : ChunkContiguous(received[i], chunk[g])

\* g1 called Write first, g2 took the lock first: every reader gets g2's
\* chunk and then g1's, and reader 2 is in the middle of g1's chunk
C23_Witness ==
    /\ n >= 2
    /\ Len(chunk["g1"]) = 2
    /\ Len(chunk["g2"]) = 2
    /\ chunk["g1"][1] < chunk["g2"][1]
    /\ written = chunk["g2"] \o chunk["g1"]
    /\ res["g2"].done
    /\ res["g2"].err = Nil
    /\ pc["g1"] = "W39"
    /\ idx["g1"] = 2
    /\ received[1] = written
    /\ Len(received[2]) = 3

\* C24: while a Write is in progress the endpoint is open and no internal
\* pipe's writer is closed; a Close called meanwhile cannot take the lock; a
\* Write waiting on a reader that is open and has not taken the whole chunk
\* cannot return; and a forward of a returned Write failed only on a pipe whose
\* reader closed its end.
C24_CloseWaitsForWrite ==
    \A g \in Procs :
        /\ InWrite(g) =>
               /\ ~closed
               /\ \A i \in Readers : ~pipe[i].wclosed
               /\ \A h \in Procs \ {g} : pc[h] = "C55" => ~ENABLED CloseLock(h)
        /\ (pc[g] = "W39" /\ ~pipe[idx[g]].rclosed /\ ~ForwardComplete(idx[g])) =>
               ~ENABLED WriteForwardDone(g)
        /\ (res[g].done /\ Accepted(g)) =>
               \A k \in 1..Len(fwd[g]) :
                   \/ fwd[g][k] = [n |-> Len(chunk[g]), err |-> Nil]
                   \/ fwd[g][k].err = ErrClosedPipe /\ pipe[k].rclosed

\* g1's Write waits on reader 1, which took one byte of two and reads no
\* more; g2 has called Close and waits for the lock
C24_Witness ==
    /\ n >= 2
    /\ pc["g1"] = "W39"
    /\ idx["g1"] = 1
    /\ Len(chunk["g1"]) = 2
    /\ Len(pipe[1].b) = 1
    /\ ~pipe[1].rclosed
    /\ pc["g2"] = "C55"
    /\ mu = "g1"
    /\ ~closed

\* ----------------------------------------- the handler built on io.MultiWriter
\* main.go lines 222-283. Pipe 1 is (prGemini, pwGemini), pipe 2 is
\* (prConcierge, pwConcierge): the order in which io.MultiWriter was given the
\* writers (line 227) and in which Close closes them (line 232). The caller g1
\* is the MQTT client; the goroutine of line 235 is at mainpc.

\* lines 223-235: the two pipes are made, the goroutine is started and the
\* sink is returned
MwHandler ==
    /\ n = 2
    /\ closed = FALSE
    /\ mu = NoOne
    /\ pipe = [i \in 1..2 |-> NewPipe]
    /\ received = [i \in 1..2 |-> <<>>]
    /\ rstat = [i \in 1..2 |-> "open"]
    /\ InitCallers
    /\ path = "mw"
    /\ cp = "copy"
    /\ srcEnd = "none"
    /\ archSt = "run"
    /\ extSt = "run"
    /\ srcImgStoredURL = ""
    /\ readResult = Nil
    /\ wg = 0
    /\ mainpc = "post"
    /\ chLuggage = <<>>
    /\ sent = <<>>

\* the MQTT client calls Write on the sink: io.MultiWriter's Write starts at
\* its first writer
MwWrite(len) ==
    /\ path = "mw"
    /\ cp = "copy"
    /\ pc["g1"] = "idle"
    /\ nWrites < MaxWrites
    /\ nWrites' = nWrites + 1
    /\ chunk' = [chunk EXCEPT !["g1"] = NewChunk(len)]
    /\ nextByte' = nextByte + len
    /\ written' = written \o NewChunk(len)
    /\ idx' = [idx EXCEPT !["g1"] = 1]
    /\ fwd' = [fwd EXCEPT !["g1"] = <<>>]
    /\ res' = [res EXCEPT !["g1"] = [done |-> FALSE, n |-> 0, err |-> Nil]]
    /\ pc' = [pc EXCEPT !["g1"] = "M1"]
    /\ UNCHANGED <<n, closed, mu, pipe, firstErr, received, rstat>>
    /\ UNCHANGED <<closeRet, after, rcBefore, cres>>
    /\ UNCHANGED bvars
    /\ UNCHANGED svars

\* io.MultiWriter, w.Write(p) on writer idx is entered: a pipe that is done
\* fails at once and ends the Write, any other takes the chunk and waits for
\* its reader
MwForward ==
    /\ pc["g1"] = "M1"
    /\ LET i == idx["g1"] IN
       IF PipeDone(i)
       THEN /\ fwd' = [fwd EXCEPT !["g1"] = Append(@, [n |-> 0, err |-> ErrClosedPipe])]
            /\ res' = [res EXCEPT !["g1"] = [done |-> TRUE, n |-> 0, err |-> ErrClosedPipe]]
            /\ pc' = [pc EXCEPT !["g1"] = "idle"]
            /\ UNCHANGED pipe
       ELSE /\ pipe' = [pipe EXCEPT ![i] = [@ EXCEPT !.wr = TRUE, !.once = TRUE,
                                                     !.b = chunk["g1"], !.cnt = 0]]
            /\ pc' = [pc EXCEPT !["g1"] = "M2"]
            /\ UNCHANGED <<fwd, res>>
    /\ UNCHANGED <<n, closed, mu, chunk, idx, firstErr, received, rstat>>
    /\ UNCHANGED <<written, closeRet, after, rcBefore, nWrites, nextByte, cres>>
    /\ UNCHANGED bvars
    /\ UNCHANGED svars

\* io.MultiWriter, w.Write(p) on writer idx returns: with an error the Write
\* ends there, after the last writer it returns (len(p), nil), else it goes on
\* to the next writer
MwForwardDone ==
    /\ pc["g1"] = "M2"
    /\ LET i    == idx["g1"]
           full == ForwardComplete(i)
           nw   == pipe[i].cnt
           err  == IF full THEN Nil ELSE ErrClosedPipe
       IN  /\ full \/ PipeDone(i)
           /\ fwd' = [fwd EXCEPT !["g1"] = Append(@, [n |-> nw, err |-> err])]
           /\ pipe' = [pipe EXCEPT ![i] = [@ EXCEPT !.wr = FALSE, !.once = FALSE,
                                                    !.b = <<>>, !.cnt = 0]]
           /\ IF err # Nil \/ i = n
              THEN /\ res' = [res EXCEPT !["g1"] = [done |-> TRUE, n |-> nw, err |-> err]]
                   /\ pc' = [pc EXCEPT !["g1"] = "idle"]
                   /\ UNCHANGED idx
              ELSE /\ idx' = [idx EXCEPT !["g1"] = i + 1]
                   /\ pc' = [pc EXCEPT !["g1"] = "M1"]
                   /\ UNCHANGED res
    /\ UNCHANGED <<n, closed, mu, chunk, firstErr, received, rstat>>
    /\ UNCHANGED <<written, closeRet, after, rcBefore, nWrites, nextByte, cres>>
    /\ UNCHANGED bvars
    /\ UNCHANGED svars

\* the MQTT client has no more payload for the sink
MwStop ==
    /\ path = "mw"
    /\ cp = "copy"
    /\ pc["g1"] = "idle"
    /\ cp' = "close"
    /\ UNCHANGED <<path, srcEnd, archSt, extSt, srcImgStoredURL, readResult, wg,
                   mainpc, chLuggage, sent>>
    /\ UNCHANGED <<pvars, hvars>>
    /\ UNCHANGED svars

\* lines 272-273: Close on the sink is called by goroutine g; it takes no lock
\* and looks at no flag
MwStartClose(g) ==
    /\ pc[g] = "idle"
    /\ pc' = [pc EXCEPT ![g] = "K274"]
    /\ idx' = [idx EXCEPT ![g] = 1]
    /\ cres' = [cres EXCEPT ![g] = "none"]
    /\ UNCHANGED <<n, closed, mu, pipe, chunk, firstErr, res, received, rstat>>
    /\ UNCHANGED <<written, fwd, closeRet, after, rcBefore, nWrites, nextByte>>

\* the MQTT client calls Close on the sink after its last Write returned
MwCloseCall ==
    /\ path = "mw"
    /\ cp = "close"
    /\ MwStartClose("g1")
    /\ cp' = "done"
    /\ UNCHANGED <<path, srcEnd, archSt, extSt, srcImgStoredURL, readResult, wg,
                   mainpc, chLuggage, sent>>
    /\ UNCHANGED svars

\* another goroutine calls Close on the sink, once, at any moment, a Write in
\* progress or not (srcEnd records that it did)
MwConcurrentClose ==
    /\ path = "mw"
    /\ srcEnd = "none"
    /\ MwStartClose("g2")
    /\ srcEnd' = "closed"
    /\ UNCHANGED <<path, cp, archSt, extSt, srcImgStoredURL, readResult, wg,
                   mainpc, chLuggage, sent>>
    /\ UNCHANGED svars

\* lines 274-283: closer.Close() on the next PipeWriter, which returns nil;
\* after the last one Close returns nil
MwClosePipe(g) ==
    /\ pc[g] = "K274"
    /\ LET i == idx[g] IN
           /\ pipe' = [pipe EXCEPT ![i] = [@ EXCEPT !.wclosed = TRUE,
                                                    !.wcloses = @ + 1]]
           /\ idx' = [idx EXCEPT ![g] = i + 1]
           /\ IF i = n
              THEN /\ pc' = [pc EXCEPT ![g] = "idle"]
                   /\ closeRet' = TRUE
                   /\ cres' = [cres EXCEPT ![g] = PipeWriterClose(i)]
              ELSE UNCHANGED <<pc, closeRet, cres>>
    /\ UNCHANGED <<n, closed, mu, chunk, firstErr, res, received, rstat>>
    /\ UNCHANGED <<written, fwd, after, rcBefore, nWrites, nextByte>>
    /\ UNCHANGED bvars
    /\ UNCHANGED svars

\* PipeReader.Read on pipe i, which no lock keeps apart from a Close of its
\* writer: a Read that begins after that Close returns end-of-stream, even
\* with a Write still waiting on the pipe
MwRead(i, k) ==
    IF pipe[i].wclosed
    THEN /\ rstat[i] = "open"
         /\ ~pipe[i].rclosed
         /\ rstat' = [rstat EXCEPT ![i] = EOF]
         /\ UNCHANGED <<n, closed, mu, pipe, pc, chunk, idx, firstErr, res, received>>
         /\ UNCHANGED hvars
         /\ UNCHANGED bvars
         /\ UNCHANGED svars
    ELSE Read(i, k)

\* line 239, PostImage reads prConcierge (concierge.go line 40)
MwArchiveRead(k) ==
    /\ path = "mw"
    /\ mainpc = "post"
    /\ MwRead(2, k)

\* lines 239-243: PostImage returns after it read the image to the end; on an
\* error the goroutine returns
MwArchiveReturn(ok) ==
    /\ path = "mw"
    /\ mainpc = "post"
    /\ rstat[2] = EOF
    /\ archSt' = IF ok THEN "ok" ELSE "fail"
    /\ srcImgStoredURL' = PostImageResult(ok).url
    /\ mainpc' = IF ok THEN "read" ELSE "defer1"
    /\ UNCHANGED <<path, cp, srcEnd, extSt, readResult, wg, chLuggage, sent>>
    /\ UNCHANGED <<pvars, hvars>>
    /\ UNCHANGED svars

\* line 246, ReadGasGuagePic reads prGemini (gemini.go line 95)
MwExtractRead(k) ==
    /\ path = "mw"
    /\ mainpc = "read"
    /\ MwRead(1, k)

\* lines 246-254: ReadGasGuagePic returns, a reading once the image was read
\* to the end or an error at any point; on an error or a nil result the
\* goroutine returns
MwExtractReturn(ok) ==
    /\ path = "mw"
    /\ mainpc = "read"
    /\ ok => rstat[1] = EOF
    /\ extSt' = IF ok THEN "ok" ELSE "fail"
    /\ readResult' = ReadGasGuagePicResult(ok)
    /\ mainpc' = IF Abandons(~ok, ReadGasGuagePicResult(ok) = Nil) THEN "defer1" ELSE "send"
    /\ UNCHANGED <<path, cp, srcEnd, archSt, srcImgStoredURL, wg, chLuggage, sent>>
    /\ UNCHANGED <<pvars, hvars>>
    /\ UNCHANGED svars

\* lines 256-260: chLuggage <- l
MwSend ==
    /\ path = "mw"
    /\ mainpc = "send"
    /\ Len(chLuggage) < LuggageCap
    /\ LET l == MakeLuggage(readResult, srcImgStoredURL) IN
           /\ chLuggage' = Append(chLuggage, l)
           /\ sent' = Append(sent, l)
    /\ mainpc' = "defer1"
    /\ UNCHANGED <<path, cp, srcEnd, archSt, extSt, srcImgStoredURL, readResult, wg>>
    /\ UNCHANGED <<pvars, hvars>>
    /\ UNCHANGED svars

\* line 237: the deferred prGemini.Close(), deferred last and run first
MwDeferCloseGemini ==
    /\ path = "mw"
    /\ mainpc = "defer1"
    /\ CloseReader(1)
    /\ mainpc' = "defer2"
    /\ UNCHANGED <<path, cp, srcEnd, archSt, extSt, srcImgStoredURL, readResult, wg,
                   chLuggage, sent>>
    /\ UNCHANGED svars

\* line 236: the deferred prConcierge.Close(); the goroutine ends
MwDeferCloseConcierge ==
    /\ path = "mw"
    /\ mainpc = "defer2"
    /\ CloseReader(2)
    /\ mainpc' = "done"
    /\ UNCHANGED <<path, cp, srcEnd, archSt, extSt, srcImgStoredURL, readResult, wg,
                   chLuggage, sent>>
    /\ UNCHANGED svars

MwInit ==
    /\ MwHandler
    /\ NoProcess

MwNext ==
    \/ \E len \in 1..MaxChunk : MwWrite(len)
    \/ MwForward
    \/ MwForwardDone
    \/ MwStop
    \/ MwCloseCall
    \/ MwConcurrentClose
    \/ \E g \in Procs : MwClosePipe(g)
    \/ \E k \in 1..MaxChunk : MwArchiveRead(k)
    \/ \E ok \in BOOLEAN : MwArchiveReturn(ok)
    \/ \E k \in 1..MaxChunk : MwExtractRead(k)
    \/ \E ok \in BOOLEAN : MwExtractReturn(ok)
    \/ MwSend
    \/ MwDeferCloseGemini
    \/ MwDeferCloseConcierge

MwSpec == MwInit /\ [][MwNext]_vars

\* Every goroutine that can take a step takes it: the MQTT client goes on
\* writing or ends its message and closes the sink, io.MultiWriter and a
\* Close that was called go on, each consumer reads whenever its pipe has
\* something for it and returns at the end of its stream. Nothing obliges
\* another goroutine to call Close during a Write.
MwFairness ==
    /\ WF_vars((\E len \in 1..MaxChunk : MwWrite(len)) \/ MwStop)
    /\ WF_vars(MwForward)
    /\ WF_vars(MwForwardDone)
    /\ WF_vars(MwCloseCall)
    /\ \A g \in Procs : WF_vars(MwClosePipe(g))
    /\ WF_vars(\E k \in 1..MaxChunk : MwArchiveRead(k))
    /\ WF_vars(\E ok \in BOOLEAN : MwArchiveReturn(ok))
    /\ WF_vars(\E k \in 1..MaxChunk : MwExtractRead(k))
    /\ WF_vars(MwExtractReturn(TRUE))
    /\ WF_vars(MwSend)
    /\ WF_vars(MwDeferCloseGemini)
    /\ WF_vars(MwDeferCloseConcierge)

MwFairSpec == MwInit /\ [][MwNext]_vars /\ MwFairness

\* a Write on the sink of the io.MultiWriter handler is in progress
MwInWrite == pc["g1"] \in {"M1", "M2"}

\* C25: in the io.MultiWriter handler, with each consumer reading whenever it
\* can, every Write of a non-empty chunk on the sink returns, and the
\* goroutine of the handler comes to its end.
C25_MultiWriterHandlerProgress ==
    /\ MwInWrite ~> res["g1"].done
    /\ <>(mainpc = "done")

====
